---- MODULE Spec2Model ----
(***************************************************************************)
(* Model of slave.py: the task orchestrator.  main() reads its            *)
(* environment, loads config.yaml and (in "all" mode) dependencies.yaml,   *)
(* orders the tasks with topological_sort (Kahn's algorithm), runs them    *)
(* with execute_task_sequence / execute_task and sends a final DONE or     *)
(* ERROR message with send_completion_signal.                              *)
(*                                                                         *)
(* Modelling assumptions: the YAML documents, when readable, are mappings  *)
(* (config.yaml: key -> record, dependencies.yaml: key -> list of          *)
(* identifiers).  An uncaught Python exception ends the process; it is     *)
(* recorded in fault and pc = "crashed".                                   *)
(***************************************************************************)
EXTENDS Integers, Sequences, FiniteSets, TLC

\* ---------------------------------------------------------------- bounds
\* The identifiers a configuration or a dependency declaration may use.
TaskIds == {"a", "b", "c"}
\* Longest prerequisite list of one key of dependencies.yaml.
MaxDeps == 2
\* Most (task, prerequisite) edges of one dependency declaration.
MaxEdges == 3

\* ------------------------------------------------------------ data model
Range(s) == {s[i] : i \in DOMAIN s}

\* The orders in which a Python set with the elements S can iterate: str
\* hashes are randomised per process, so each permutation is possible.
SetIterationOrders(S) ==
    {s \in [1..Cardinality(S) -> S] : Range(s) = S}

\* The prerequisite lists of one key: duplicates allowed, possibly empty.
DepLists == UNION {[1..k -> TaskIds] : k \in 0..MaxDeps}

RECURSIVE SumLen(_, _)
SumLen(f, n) == IF n = 0 THEN 0 ELSE Len(f[n]) + SumLen(f, n - 1)

\* The "dependencies" mapping of dependencies.yaml: a dict, i.e. distinct
\* keys in file order, each with its list of prerequisites.
DependencyDecls ==
    UNION {
        {[i \in 1..Len(ko) |-> [task |-> ko[i], deps |-> f[i]]] :
            f \in {g \in [1..Len(ko) -> DepLists] : SumLen(g, Len(ko)) <= MaxEdges}}
        : ko \in UNION {SetIterationOrders(K) : K \in SUBSET TaskIds}}

\* A key with an empty list adds no pair to the loops of topological_sort:
\* the declarations in which every key has at least one prerequisite.
EffectiveDecls ==
    {d \in DependencyDecls : \A i \in DOMAIN d : d[i].deps # <<>>}

\* The (task, dep) pairs in the order the two nested loops of
\* topological_sort visit them.
RECURSIVE EdgeSeq(_)
EdgeSeq(d) ==
    IF d = <<>> THEN <<>>
    ELSE [i \in 1..Len(Head(d).deps) |-> <<Head(d).task, Head(d).deps[i]>>]
         \o EdgeSeq(Tail(d))

\* What one plugin does when execute_task runs it: its file is missing, its
\* module raises an Exception or a BaseException (SystemExit) while loading,
\* it has no attribute run, its run is not a zero-argument callable, run()
\* raises an Exception or a BaseException, or run() returns.
PluginKinds ==
    {"ok", "missing_file", "load_raises", "load_exits", "no_run", "bad_run",
     "run_raises", "run_exits"}

\* ------------------------------------------------------- topological_sort
\* graph = defaultdict(list): every identifier has a (possibly empty) list.
EmptyGraph == [x \in TaskIds |-> <<>>]

\* in_degree = {task: 0 for task in tasks}
ZeroInDegree(tasks) == [t \in tasks |-> 0]

\* BuildGraph with the adjacency lists kept free of repeats ("if task not
\* in graph[dep]") while in_degree still counts every declared pair.
RECURSIVE BuildGraphUniqueNeighbors(_, _, _)
BuildGraphUniqueNeighbors(edges, graph, in_degree) ==
    IF edges = <<>>
    THEN [raised |-> FALSE, graph |-> graph, in_degree |-> in_degree]
    ELSE LET task == Head(edges)[1]
             dep  == Head(edges)[2]
             g2   == IF task \in Range(graph[dep]) THEN graph
                     ELSE [graph EXCEPT ![dep] = Append(@, task)]
         IN  IF task \notin DOMAIN in_degree
             THEN [raised |-> TRUE, graph |-> g2, in_degree |-> in_degree]
             ELSE BuildGraphUniqueNeighbors(Tail(edges), g2,
                                            [in_degree EXCEPT ![task] = @ + 1])

\* BuildGraph with "in_degree[task] = 1" written for "in_degree[task] += 1".
RECURSIVE BuildGraphAssign(_, _, _)
BuildGraphAssign(edges, graph, in_degree) ==
    IF edges = <<>>
    THEN [raised |-> FALSE, graph |-> graph, in_degree |-> in_degree]
    ELSE LET task == Head(edges)[1]
             dep  == Head(edges)[2]
             g2   == [graph EXCEPT ![dep] = Append(@, task)]
         IN  IF task \notin DOMAIN in_degree
             THEN [raised |-> TRUE, graph |-> g2, in_degree |-> in_degree]
             ELSE BuildGraphAssign(Tail(edges), g2,
                                   [in_degree EXCEPT ![task] = 1])

\* The loop that builds graph and in_degree; in_degree[task] += 1 raises
\* KeyError when task is no key of in_degree.
RECURSIVE BuildGraph(_, _, _)
BuildGraph(edges, graph, in_degree) ==
    IF edges = <<>>
    THEN [raised |-> FALSE, graph |-> graph, in_degree |-> in_degree]
    ELSE LET task == Head(edges)[1]
             dep  == Head(edges)[2]
             g2   == [graph EXCEPT ![dep] = Append(@, task)]
         IN  IF task \notin DOMAIN in_degree
             THEN [raised |-> TRUE, graph |-> g2, in_degree |-> in_degree]
             ELSE BuildGraph(Tail(edges), g2,
                             [in_degree EXCEPT ![task] = @ + 1])

\* InitialQueue without the "if in_degree[task] == 0" filter.
InitialQueueAll(iter, in_degree) == iter

\* queue = deque([task for task in tasks if in_degree[task] == 0])
InitialQueue(iter, in_degree) ==
    SelectSeq(iter, LAMBDA t : in_degree[t] = 0)

\* Relax without the "if in_degree[neighbor] == 0" test: a neighbor is
\* admitted at every decrement.
RECURSIVE RelaxAdmitsAlways(_, _, _)
RelaxAdmitsAlways(neighbors, in_degree, queue) ==
    IF neighbors = <<>>
    THEN [in_degree |-> in_degree, queue |-> queue]
    ELSE LET n  == Head(neighbors)
             d2 == [in_degree EXCEPT ![n] = @ - 1]
         IN  RelaxAdmitsAlways(Tail(neighbors), d2, Append(queue, n))

\* for neighbor in graph[current]: decrement, admit at zero.
RECURSIVE Relax(_, _, _)
Relax(neighbors, in_degree, queue) ==
    IF neighbors = <<>>
    THEN [in_degree |-> in_degree, queue |-> queue]
    ELSE LET n  == Head(neighbors)
             d2 == [in_degree EXCEPT ![n] = @ - 1]
         IN  Relax(Tail(neighbors), d2,
                   IF d2[n] = 0 THEN Append(queue, n) ELSE queue)

\* KahnIteration reading queue[0] without popleft(): the task stays in the
\* queue.
KahnIterationNoPop(graph, in_degree, queue, order) ==
    LET current == Head(queue)
        r       == Relax(graph[current], in_degree, queue)
    IN  [in_degree |-> r.in_degree, queue |-> r.queue,
         order |-> Append(order, current)]

\* One iteration of "while queue:".
KahnIteration(graph, in_degree, queue, order) ==
    LET current == Head(queue)
        r       == Relax(graph[current], in_degree, Tail(queue))
    IN  [in_degree |-> r.in_degree, queue |-> r.queue,
         order |-> Append(order, current)]

\* if len(order) != len(tasks): return []  else: return order
SortResult(order, tasks) ==
    IF Len(order) # Cardinality(tasks) THEN <<>> ELSE order

RECURSIVE KahnLoop(_, _, _, _)
KahnLoop(graph, in_degree, queue, order) ==
    IF queue = <<>> THEN order
    ELSE LET s == KahnIteration(graph, in_degree, queue, order)
         IN  KahnLoop(graph, s.in_degree, s.queue, s.order)

\* topological_sort as a function of the iteration order of the set tasks
\* and of the dependency mapping.
TopologicalSort(iter, deps) ==
    LET b == BuildGraph(EdgeSeq(deps), EmptyGraph, ZeroInDegree(Range(iter)))
    IN  IF b.raised
        THEN [raised |-> TRUE, order |-> <<>>]
        ELSE [raised |-> FALSE,
              order  |-> SortResult(
                  KahnLoop(b.graph, b.in_degree,
                           InitialQueue(iter, b.in_degree), <<>>),
                  Range(iter))]

\* ------------------------------------------------------------ execute_task
\* The value execute_task returns for a plugin of this kind; the kinds that
\* raise a BaseException (SystemExit, KeyboardInterrupt) return nothing.
Escapes(kind) == kind \in {"load_exits", "run_exits"}
Succeeded(kind) == kind = "ok"
Failed(kind) == ~Succeeded(kind) /\ ~Escapes(kind)

\* The category of the error execute_task logs before it returns False:
\* lines 87 and 95 (load), line 99 (no run attribute), line 108 (the call
\* task_module.run() raised, also when run is not callable or needs
\* arguments).
LoggedCategory(kind) ==
    CASE kind \in {"missing_file", "load_raises"} -> "load error"
      [] kind = "no_run" -> "missing entry point"
      [] kind \in {"bad_run", "run_raises"} -> "execution error"
      [] OTHER -> "none"

\* execute_task writes at least one log line before it returns or is left
\* by an exception: every path but a BaseException out of exec_module.
LogsBeforeLeaving(kind) == kind # "load_exits"

\* execute_task reached the call task_module.run() (line 104).
RunCalled(kind) == kind \in {"ok", "bad_run", "run_raises", "run_exits"}

\* ------------------------------------------------------------------ state
VARIABLES
    pc,            \* where main is
    queue_url,     \* SQS_QUEUE_URL is set
    task_type,     \* TASK_TYPE: "all" or a key of config.yaml
    config_state,  \* "unread", "ok" (config.yaml loaded) or "error"
    config,        \* the keys of config.yaml once loaded
    deps_state,    \* "unread", "ok" (dependencies.yaml loaded) or "error"
    dependencies,  \* the dependency mapping once loaded
    task_config,   \* single-task mode: what config[task_type]["task"] gave
    all_tasks,     \* set(config.keys()), as the order it iterates in
    graph, in_degree, queue, order,   \* locals of topological_sort
    task_order,    \* what topological_sort returned / the single task
    task_idx,      \* position of execute_task_sequence's loop
    invoked,       \* history: the execute_task calls made, with the plugin's kind
    halted,        \* task named by "Execution halted. Task ... failed."
    success,       \* main's success flag
    signals,       \* history: messages send_completion_signal tried to send
    delivered,     \* those the queue accepted
    signal_diag,   \* "Failed to send completion signal" was logged
    log_lost,      \* the queue refused a log line; emit called handleError
    fault,         \* uncaught exception that ended the process, if any
    exit_code      \* process exit status, -1 while running

vars == <<pc, queue_url, task_type, config_state, config, deps_state,
          dependencies, task_config, all_tasks, graph, in_degree, queue,
          order, task_order, task_idx, invoked, halted, success, signals,
          delivered, signal_diag, log_lost, fault, exit_code>>

envVars == <<queue_url, task_type>>
inputVars == <<config_state, config, deps_state, dependencies, task_config>>

sortVars == <<graph, in_degree, queue, order>>
execVars == <<task_idx, invoked, halted, success>>
logVars == <<signal_diag, log_lost>>

NoTask == "-"

Init ==
    /\ pc = "start"
    /\ queue_url \in BOOLEAN
    /\ task_type \in {"all"} \cup TaskIds
    /\ config_state = "unread"
    /\ config = {}
    /\ deps_state = "unread"
    /\ dependencies = <<>>
    /\ task_config = "unread"
    /\ all_tasks = <<>>
    /\ graph = EmptyGraph
    /\ in_degree = <<>>
    /\ queue = <<>>
    /\ order = <<>>
    /\ task_order = <<>>
    /\ task_idx = 1
    /\ invoked = <<>>
    /\ halted = NoTask
    /\ success = FALSE
    /\ signals = <<>>
    /\ delivered = <<>>
    /\ signal_diag = FALSE
    /\ log_lost = FALSE
    /\ fault = "none"
    /\ exit_code = -1

\* SQSSenderHandler.emit for the log lines of one step: the queue takes
\* them, or send_message raises and emit hands the record to handleError.
LogLine == \E sent \in BOOLEAN : log_lost' = (log_lost \/ ~sent)

\* send_completion_signal with "except Exception: pass": a failed send is
\* swallowed without the diagnostic.
SendCompletionSignalSilent(msg) ==
    /\ signals' = Append(signals, msg)
    /\ \E ok \in BOOLEAN :
           /\ delivered' = IF ok THEN Append(delivered, msg) ELSE delivered
           /\ signal_diag' = signal_diag
    /\ LogLine

\* send_completion_signal(queue_url, msg): the send is announced in the log
\* and attempted; a failure of the transport is caught and logged as an
\* error.
SendCompletionSignal(msg) ==
    /\ signals' = Append(signals, msg)
    /\ \E ok \in BOOLEAN :
           /\ delivered' = IF ok THEN Append(delivered, msg) ELSE delivered
           /\ signal_diag' = (signal_diag \/ ~ok)
    /\ LogLine

\* send_completion_signal(queue_url, "ERROR"); sys.exit(1)
ReportErrorAndExit ==
    /\ SendCompletionSignal("ERROR")
    /\ pc' = "exited"
    /\ exit_code' = 1

\* main, lines 181-198: read the environment, attach the log handler.
Start ==
    /\ pc = "start"
    /\ IF ~queue_url
       THEN /\ pc' = "exited"
            /\ exit_code' = 1
            /\ UNCHANGED log_lost
       ELSE /\ pc' = "load_config"
            /\ exit_code' = exit_code
            /\ LogLine
    /\ UNCHANGED <<envVars, inputVars, all_tasks, sortVars, task_order,
                   execVars, signals, delivered, signal_diag, fault>>

\* main, lines 200-207: load config.yaml.
LoadConfig ==
    /\ pc = "load_config"
    /\ \/ /\ config_state' = "error"
          /\ ReportErrorAndExit
          /\ UNCHANGED config
       \/ /\ config_state' = "ok"
          /\ \E keys \in SUBSET TaskIds : config' = keys
          /\ pc' = "mode"
          /\ UNCHANGED <<signals, delivered, logVars, exit_code>>
    /\ UNCHANGED <<envVars, deps_state, dependencies, task_config, all_tasks,
                   sortVars, task_order, execVars, fault>>

\* main, lines 209-218: TASK_TYPE == "all", load dependencies.yaml.
LoadDependencies ==
    /\ pc = "mode"
    /\ task_type = "all"
    /\ \/ /\ deps_state' = "error"
          /\ ReportErrorAndExit
          /\ UNCHANGED dependencies
       \/ /\ deps_state' = "ok"
          /\ \E d \in EffectiveDecls : dependencies' = d
          /\ pc' = "sort"
          /\ UNCHANGED <<signals, delivered, logVars, exit_code>>
    /\ UNCHANGED <<envVars, config_state, config, task_config, all_tasks,
                   sortVars, task_order, execVars, fault>>

\* main line 221 and topological_sort lines 126-135: build the task set,
\* the graph, the in-degrees and the initial queue.
SortBegin ==
    /\ pc = "sort"
    /\ \E iter \in SetIterationOrders(config) :
         LET b == BuildGraph(EdgeSeq(dependencies), EmptyGraph,
                             ZeroInDegree(Range(iter)))
         IN  /\ all_tasks' = iter
             /\ IF b.raised
                THEN /\ pc' = "crashed"
                     /\ fault' = "KeyError"
                     /\ exit_code' = 1
                     /\ UNCHANGED sortVars
                ELSE /\ pc' = "kahn"
                     /\ graph' = b.graph
                     /\ in_degree' = b.in_degree
                     /\ queue' = InitialQueue(iter, b.in_degree)
                     /\ order' = <<>>
                     /\ UNCHANGED <<fault, exit_code>>
    /\ UNCHANGED <<envVars, inputVars, task_order, execVars, signals,
                   delivered, logVars>>

\* topological_sort lines 137-143: one iteration of the work-queue loop.
KahnStep ==
    /\ pc = "kahn"
    /\ queue # <<>>
    /\ LET s == KahnIteration(graph, in_degree, queue, order)
       IN  /\ in_degree' = s.in_degree
           /\ queue' = s.queue
           /\ order' = s.order
    /\ UNCHANGED <<pc, envVars, inputVars, all_tasks, graph, task_order,
                   execVars, signals, delivered, logVars, fault, exit_code>>

\* topological_sort lines 145-149: the loop is over, return.
SortReturn ==
    /\ pc = "kahn"
    /\ queue = <<>>
    /\ task_order' = SortResult(order, Range(all_tasks))
    /\ IF Len(order) # Cardinality(Range(all_tasks))
       THEN LogLine
       ELSE UNCHANGED log_lost
    /\ pc' = "sorted"
    /\ UNCHANGED <<envVars, inputVars, all_tasks, sortVars, execVars,
                   signals, delivered, signal_diag, fault, exit_code>>

\* main lines 223-227: "if not task_order" reports ERROR and exits.
CheckOrder ==
    /\ pc = "sorted"
    /\ IF task_order = <<>>
       THEN ReportErrorAndExit
       ELSE /\ pc' = "exec"
            /\ LogLine
            /\ UNCHANGED <<signals, delivered, signal_diag, exit_code>>
    /\ UNCHANGED <<envVars, inputVars, all_tasks, sortVars, task_order,
                   execVars, fault>>

\* ExecuteNext without the "return False" after a failed task: the loop
\* goes on to the next task.
ExecuteNextContinue ==
    /\ pc = "exec"
    /\ task_idx <= Len(task_order)
    /\ \E kind \in PluginKinds :
         LET task == task_order[task_idx]
         IN  /\ invoked' = Append(invoked, [task |-> task, kind |-> kind])
             /\ IF LogsBeforeLeaving(kind) THEN LogLine
                ELSE UNCHANGED log_lost
             /\ IF Escapes(kind)
                THEN /\ pc' = "crashed"
                     /\ fault' = "BaseException"
                     /\ exit_code' = 1
                     /\ UNCHANGED <<task_idx, halted, success>>
                ELSE /\ halted' = IF Failed(kind) THEN task ELSE halted
                     /\ task_idx' = task_idx + 1
                     /\ UNCHANGED <<pc, success, fault, exit_code>>
    /\ UNCHANGED <<envVars, inputVars, all_tasks, sortVars, task_order,
                   signals, delivered, signal_diag>>

\* ExecuteNext with the loop advancing by two: every second task is skipped.
ExecuteNextSkip ==
    /\ pc = "exec"
    /\ task_idx <= Len(task_order)
    /\ \E kind \in PluginKinds :
         LET task == task_order[task_idx]
         IN  /\ invoked' = Append(invoked, [task |-> task, kind |-> kind])
             /\ IF LogsBeforeLeaving(kind) THEN LogLine
                ELSE UNCHANGED log_lost
             /\ IF Escapes(kind)
                THEN /\ pc' = "crashed"
                     /\ fault' = "BaseException"
                     /\ exit_code' = 1
                     /\ UNCHANGED <<task_idx, halted, success>>
                ELSE IF Failed(kind)
                THEN /\ halted' = task
                     /\ success' = FALSE
                     /\ pc' = "final"
                     /\ UNCHANGED <<task_idx, fault, exit_code>>
                ELSE /\ task_idx' = task_idx + 2
                     /\ UNCHANGED <<pc, halted, success, fault, exit_code>>
    /\ UNCHANGED <<envVars, inputVars, all_tasks, sortVars, task_order,
                   signals, delivered, signal_diag>>

\* execute_task_sequence lines 162-166: one iteration of "for task in
\* task_order", with the whole execute_task call.
ExecuteNext ==
    /\ pc = "exec"
    /\ task_idx <= Len(task_order)
    /\ \E kind \in PluginKinds :
         LET task == task_order[task_idx]
         IN  /\ invoked' = Append(invoked, [task |-> task, kind |-> kind])
             /\ IF LogsBeforeLeaving(kind) THEN LogLine
                ELSE UNCHANGED log_lost
             /\ IF Escapes(kind)
                THEN /\ pc' = "crashed"
                     /\ fault' = "BaseException"
                     /\ exit_code' = 1
                     /\ UNCHANGED <<task_idx, halted, success>>
                ELSE IF Failed(kind)
                THEN /\ halted' = task
                     /\ success' = FALSE
                     /\ pc' = "final"
                     /\ UNCHANGED <<task_idx, fault, exit_code>>
                ELSE /\ task_idx' = task_idx + 1
                     /\ UNCHANGED <<pc, halted, success, fault, exit_code>>
    /\ UNCHANGED <<envVars, inputVars, all_tasks, sortVars, task_order,
                   signals, delivered, signal_diag>>

\* execute_task_sequence line 167: the loop ran out, return True.
SequenceDone ==
    /\ pc = "exec"
    /\ task_idx > Len(task_order)
    /\ success' = TRUE
    /\ pc' = "final"
    /\ UNCHANGED <<envVars, inputVars, all_tasks, sortVars, task_order,
                   task_idx, invoked, halted, signals, delivered, logVars,
                   fault, exit_code>>

\* What config.get(task_type) and then .get("task") can give in single-task
\* mode: no (or an empty) entry, an entry without a task, or a task name.
TaskConfigs(keys, key) ==
    IF key \in keys THEN {"missing", "no_task"} \cup TaskIds ELSE {"missing"}

\* main lines 230-240: single-task mode, look the task up in the
\* configuration.
SelectSingle ==
    /\ pc = "mode"
    /\ task_type # "all"
    /\ \E tc \in TaskConfigs(config, task_type) :
         /\ task_config' = tc
         /\ IF tc \in {"missing", "no_task"}
            THEN ReportErrorAndExit
            ELSE /\ pc' = "single"
                 /\ UNCHANGED <<signals, delivered, logVars, exit_code>>
    /\ UNCHANGED <<envVars, config_state, config, deps_state, dependencies,
                   all_tasks, sortVars, task_order, execVars, fault>>

\* ExecuteSingle with the value of execute_task dropped: success is True
\* whatever the task returned.
ExecuteSingleIgnoresResult ==
    /\ pc = "single"
    /\ \E kind \in PluginKinds :
         /\ invoked' = Append(invoked, [task |-> task_config, kind |-> kind])
         /\ IF LogsBeforeLeaving(kind) THEN LogLine ELSE UNCHANGED log_lost
         /\ IF Escapes(kind)
            THEN /\ pc' = "crashed"
                 /\ fault' = "BaseException"
                 /\ exit_code' = 1
                 /\ UNCHANGED success
            ELSE /\ success' = TRUE
                 /\ pc' = "final"
                 /\ UNCHANGED <<fault, exit_code>>
    /\ UNCHANGED <<envVars, inputVars, all_tasks, sortVars, task_order,
                   task_idx, halted, signals, delivered, signal_diag>>

\* main line 241: success = execute_task(single_task).
ExecuteSingle ==
    /\ pc = "single"
    /\ \E kind \in PluginKinds :
         /\ invoked' = Append(invoked, [task |-> task_config, kind |-> kind])
         /\ IF LogsBeforeLeaving(kind) THEN LogLine ELSE UNCHANGED log_lost
         /\ IF Escapes(kind)
            THEN /\ pc' = "crashed"
                 /\ fault' = "BaseException"
                 /\ exit_code' = 1
                 /\ UNCHANGED success
            ELSE /\ success' = Succeeded(kind)
                 /\ pc' = "final"
                 /\ UNCHANGED <<fault, exit_code>>
    /\ UNCHANGED <<envVars, inputVars, all_tasks, sortVars, task_order,
                   task_idx, halted, signals, delivered, signal_diag>>

\* main lines 243-249: the final completion signal.
Finish ==
    /\ pc = "final"
    /\ SendCompletionSignal(IF success THEN "DONE" ELSE "ERROR")
    /\ pc' = "exited"
    /\ exit_code' = 0
    /\ UNCHANGED <<envVars, inputVars, all_tasks, sortVars, task_order,
                   execVars, fault>>

Next ==
    \/ Start
    \/ LoadConfig
    \/ LoadDependencies
    \/ SortBegin
    \/ KahnStep
    \/ SortReturn
    \/ CheckOrder
    \/ ExecuteNext
    \/ SequenceDone
    \/ SelectSingle
    \/ ExecuteSingle
    \/ Finish

Spec == Init /\ [][Next]_vars

\* topological_sort on its own: main has reached line 221 in full-graph
\* mode with some configuration and some dependency mapping loaded, keys
\* with empty lists included.
SortInit ==
    /\ pc = "sort"
    /\ queue_url = TRUE
    /\ task_type = "all"
    /\ config_state = "ok"
    /\ config \in SUBSET TaskIds
    /\ deps_state = "ok"
    /\ dependencies \in DependencyDecls
    /\ task_config = "unread"
    /\ all_tasks = <<>>
    /\ graph = EmptyGraph
    /\ in_degree = <<>>
    /\ queue = <<>>
    /\ order = <<>>
    /\ task_order = <<>>
    /\ task_idx = 1
    /\ invoked = <<>>
    /\ halted = NoTask
    /\ success = FALSE
    /\ signals = <<>>
    /\ delivered = <<>>
    /\ signal_diag = FALSE
    /\ log_lost = FALSE
    /\ fault = "none"
    /\ exit_code = -1

SortNext ==
    \/ SortBegin
    \/ KahnStep
    \/ SortReturn

\* The loop is sequential code: an iteration that can run does run.
SortFairSpec == SortInit /\ [][SortNext]_vars /\ WF_vars(SortNext)

\* -------------------------------------------------- vocabulary of the claims
\* The declared dependency edges, as (task, prerequisite) pairs.
Edges(deps) == Range(EdgeSeq(deps))

\* Every identifier of an edge is a declared task.
AllDeclared(deps, tasks) ==
    \A e \in Edges(deps) : e[1] \in tasks /\ e[2] \in tasks

\* Some edge names a prerequisite that is not a declared task.
UndeclaredPrerequisite(deps, tasks) ==
    \E e \in Edges(deps) : e[2] \notin tasks

\* There is a chain of at most n edges from x to y.
RECURSIVE Chain(_, _, _, _)
Chain(E, x, y, n) ==
    /\ n > 0
    /\ \/ <<x, y>> \in E
       \/ \E z \in TaskIds : <<x, z>> \in E /\ Chain(E, z, y, n - 1)

Cyclic(deps) ==
    \E t \in TaskIds : Chain(Edges(deps), t, t, Cardinality(TaskIds))

Position(seq, x) == CHOOSE i \in DOMAIN seq : seq[i] = x

Occurrences(seq, x) == Cardinality({i \in DOMAIN seq : seq[i] = x})

InvokedTasks == [i \in DOMAIN invoked |-> invoked[i].task]

FullGraphMode == task_type = "all"

\* topological_sort has returned to main.
SortReturned == pc = "sorted"
\* topological_sort was left by an exception.
SortRaised == fault = "KeyError"

\* execute_task_sequence has returned to main.
SequenceReturned ==
    FullGraphMode /\ (pc = "final" \/ (pc = "exited" /\ exit_code = 0))

Terminated == pc \in {"exited", "crashed"}

\* ---------------------------------------------------------------- claims

\* C1: for an acyclic declaration whose identifiers are all declared,
\* topological_sort returns (it does not raise) a list as long as the task
\* set, holding every declared task exactly once, with every prerequisite
\* before the task that lists it.
C1_ValidOrder ==
    (AllDeclared(dependencies, config) /\ ~Cyclic(dependencies)) =>
        /\ ~SortRaised
        /\ SortReturned =>
            /\ Len(task_order) = Cardinality(config)
            /\ \A t \in config : Occurrences(task_order, t) = 1
            /\ \A e \in Edges(dependencies) :
                   Position(task_order, e[2]) < Position(task_order, e[1])

C1_Witness ==
    /\ SortReturned
    /\ AllDeclared(dependencies, config) /\ ~Cyclic(dependencies)
    /\ Cardinality(config) = 3
    /\ Cardinality(Edges(dependencies)) = 3
    /\ Len(task_order) = 3

\* C2: for a declaration that contains a cycle, topological_sort returns
\* the empty order (the structural-error signal).
C2_CycleGivesEmptyOrder ==
    ((SortReturned \/ SortRaised) /\ Cyclic(dependencies)) =>
        (SortReturned /\ task_order = <<>>)

\* C3: for a declaration in which a prerequisite is not a declared task,
\* topological_sort builds the graph without raising and returns the empty
\* order.
C3_UndeclaredPrerequisiteGivesEmptyOrder ==
    ((SortReturned \/ SortRaised)
        /\ UndeclaredPrerequisite(dependencies, config)) =>
        (~SortRaised /\ SortReturned /\ task_order = <<>>)

\* C4: fail-fast.  The tasks execute_task_sequence invokes are a prefix of
\* the order, every invoked task but the last has succeeded, and once a
\* task has failed the sequence is over with result failure, naming that
\* task.
C4_FailFast ==
    FullGraphMode =>
        /\ Len(invoked) <= Len(task_order)
        /\ \A i \in DOMAIN invoked : invoked[i].task = task_order[i]
        /\ \A i \in DOMAIN invoked :
               i < Len(invoked) => Succeeded(invoked[i].kind)
        /\ (\E i \in DOMAIN invoked : Failed(invoked[i].kind)) =>
               /\ pc \in {"final", "exited"}
               /\ ~success
               /\ halted = invoked[Len(invoked)].task
               /\ pc = "exited" => signals = <<"ERROR">>

C4_Witness ==
    /\ FullGraphMode
    /\ pc = "exited"
    /\ Len(task_order) = 3
    /\ Len(invoked) = 2
    /\ Succeeded(invoked[1].kind)
    /\ Failed(invoked[2].kind)

\* C5: when every invocation succeeds, execute_task_sequence has invoked
\* exactly the tasks of the order, once each and in that order, the result
\* is success and the terminal signal is DONE.
C5_AllSucceeded ==
    (SequenceReturned
        /\ \A i \in DOMAIN invoked : Succeeded(invoked[i].kind)) =>
        /\ InvokedTasks = task_order
        /\ success
        /\ pc = "exited" => signals = <<"DONE">>

C5_Witness ==
    /\ SequenceReturned
    /\ pc = "exited"
    /\ Len(task_order) = 3
    /\ Len(invoked) = 3
    /\ \A i \in DOMAIN invoked : Succeeded(invoked[i].kind)

\* C6: in full-graph mode every prerequisite declared for an invoked task
\* was invoked earlier in the run and succeeded.
C6_PrerequisitesFirst ==
    FullGraphMode =>
        \A i \in DOMAIN invoked :
            \A e \in Edges(dependencies) :
                e[1] = invoked[i].task =>
                    \E j \in 1..(i - 1) :
                        /\ invoked[j].task = e[2]
                        /\ Succeeded(invoked[j].kind)

C6_Witness ==
    /\ FullGraphMode
    /\ Len(invoked) = 3
    /\ <<invoked[3].task, invoked[1].task>> \in Edges(dependencies)
    /\ <<invoked[3].task, invoked[2].task>> \in Edges(dependencies)

\* C7: the execution order is a function of the declared task set and the
\* dependency declaration: whatever order the task set iterates in, the
\* result is the one this run computed.
C7_DeterministicOrder ==
    SortReturned =>
        \A iter \in SetIterationOrders(config) :
            TopologicalSort(iter, dependencies).order = task_order

\* C8: a run that has terminated has attempted to send a terminal signal.
C8_TerminalSignalAttempted ==
    Terminated => Len(signals) >= 1

\* The order the run executes: the sorted one, or the single task.
ExecutedOrder == IF FullGraphMode THEN task_order ELSE <<task_config>>

AllInvokedAndSucceeded ==
    /\ InvokedTasks = ExecutedOrder
    /\ \A i \in DOMAIN invoked : Succeeded(invoked[i].kind)

\* C9: a terminated run has sent exactly one terminal message, and it is
\* DONE exactly when every task of the executed order was invoked and
\* succeeded.
C9_ExactlyOneTerminalMessage ==
    /\ Len(signals) <= 1
    /\ Terminated =>
        /\ Len(signals) = 1
        /\ signals[1] = "DONE" <=> (exit_code = 0 /\ AllInvokedAndSucceeded)

\* An unreadable config.yaml or dependencies.yaml, or no configuration or no
\* task field for the selected run mode.
ConfigurationError ==
    \/ config_state = "error"
    \/ deps_state = "error"
    \/ task_config \in {"missing", "no_task"}

\* The loaded declaration has a cycle or names an undeclared identifier.
StructuralError ==
    /\ deps_state = "ok"
    /\ \/ Cyclic(dependencies)
       \/ ~AllDeclared(dependencies, config)

\* C10: on a run with a configuration error or a structural graph error no
\* task is invoked, and the run is reported as ERROR.
C10_ErrorsShortCircuit ==
    (ConfigurationError \/ StructuralError) =>
        /\ invoked = <<>>
        /\ Terminated => signals = <<"ERROR">>

\* C11: every fault of a plugin reaches execute_task's caller as a Failed
\* outcome value; none leaves execute_task as an exception that ends the
\* process.
C11_FaultsAreValues ==
    /\ fault # "BaseException"
    /\ \A i \in DOMAIN invoked :
           ~Succeeded(invoked[i].kind) => Failed(invoked[i].kind)

\* A plugin that loads but has no zero-argument callable named run.
LacksEntryPoint(kind) == kind \in {"no_run", "bad_run"}

\* C12: a plugin that loads without exposing a zero-argument callable run
\* gives a Failed outcome of the category "missing entry point", its entry
\* point is not called and the process does not crash.
C12_MissingEntryPoint ==
    \A i \in DOMAIN invoked :
        LacksEntryPoint(invoked[i].kind) =>
            /\ Failed(invoked[i].kind)
            /\ LoggedCategory(invoked[i].kind) = "missing entry point"
            /\ ~RunCalled(invoked[i].kind)
            /\ pc # "crashed"

\* The terminal signal a run of one task sends for a plugin of this kind.
SignalsFor(kind) ==
    IF Escapes(kind) THEN <<>>
    ELSE IF Succeeded(kind) THEN <<"DONE">> ELSE <<"ERROR">>

\* Single-task mode with a valid target.
SingleTaskRun == ~FullGraphMode /\ task_config \in TaskIds

\* Full-graph mode over one declared task without prerequisites.
OneTaskGraphRun ==
    /\ FullGraphMode
    /\ deps_state = "ok"
    /\ Cardinality(config) = 1
    /\ Edges(dependencies) = {}

\* The task a one-task run is about.
TheTask == IF FullGraphMode THEN CHOOSE t \in config : TRUE ELSE task_config

\* C13: a single-task run and a full-graph run over one task without
\* prerequisites behave alike: once terminated each has made exactly one
\* invocation, of that task, and has sent the same terminal signal for the
\* same outcome (DONE if it succeeded, ERROR if it failed).
C13_SingleEqualsOneTaskGraph ==
    ((SingleTaskRun \/ OneTaskGraphRun) /\ Terminated) =>
        /\ Len(invoked) = 1
        /\ invoked[1].task = TheTask
        /\ signals = SignalsFor(invoked[1].kind)

C13_Witness ==
    /\ SingleTaskRun
    /\ Terminated
    /\ Len(invoked) = 1
    /\ Failed(invoked[1].kind)
    /\ signals = <<"ERROR">>

\* Some edge names an identifier, as dependent or as prerequisite, that is
\* not a declared task.
UndeclaredIdentifier(deps, tasks) == ~AllDeclared(deps, tasks)

\* C14: for a declaration in which an edge names an undeclared identifier,
\* as prerequisite or as dependent, topological_sort does not raise, it
\* returns the empty order, and the run ends with ERROR.
C14_UndeclaredIdentifierGivesError ==
    (deps_state = "ok" /\ UndeclaredIdentifier(dependencies, config)) =>
        /\ ~SortRaised
        /\ SortReturned => task_order = <<>>
        /\ Terminated => signals = <<"ERROR">>

\* C16: in full-graph mode an acyclic declaration whose identifiers are all
\* declared, an empty task set included, is no structural error: the run
\* goes on to the sequence executor, and when every invocation succeeds it
\* ends with DONE.
C16_AcyclicRunsToDone ==
    (/\ FullGraphMode
     /\ deps_state = "ok"
     /\ AllDeclared(dependencies, config) /\ ~Cyclic(dependencies)
     /\ Terminated
     /\ \A i \in DOMAIN invoked : Succeeded(invoked[i].kind)) =>
        /\ exit_code = 0
        /\ signals = <<"DONE">>

\* A list without its repeats, first occurrences kept.
RECURSIVE WithoutRepeats(_)
WithoutRepeats(l) ==
    IF l = <<>> THEN <<>>
    ELSE LET front == WithoutRepeats(SubSeq(l, 1, Len(l) - 1))
         IN  IF l[Len(l)] \in Range(front) THEN front
             ELSE Append(front, l[Len(l)])

\* The declaration with every (task, prerequisite) edge declared once.
DeclaredOnce(deps) ==
    [i \in DOMAIN deps |->
        [task |-> deps[i].task, deps |-> WithoutRepeats(deps[i].deps)]]

\* Some task lists a prerequisite more than once.
HasDuplicateEdge(deps) ==
    \E i \in DOMAIN deps : Len(deps[i].deps) > Cardinality(Range(deps[i].deps))

\* C17: duplicate edges are harmless.  What topological_sort gives for the
\* declaration (an order, the empty order or an exception) is what it gives,
\* under the same iteration order of the task set, for the declaration with
\* every edge declared once; and no task is in the queue and the order more
\* than once.
C17_DuplicateEdgesHarmless ==
    LET once == TopologicalSort(all_tasks, DeclaredOnce(dependencies))
    IN  /\ SortRaised => once.raised
        /\ SortReturned => (~once.raised /\ once.order = task_order)
        /\ pc \in {"kahn", "sorted"} =>
               \A t \in TaskIds : Occurrences(queue \o order, t) <= 1

C17_Witness ==
    /\ SortReturned
    /\ HasDuplicateEdge(dependencies)
    /\ Len(task_order) = 3
    /\ \E i \in DOMAIN dependencies :
           /\ Len(dependencies[i].deps) > Cardinality(Range(dependencies[i].deps))
           /\ dependencies[i].task \in Range(task_order)

\* C18: in every state of the work-queue loop the remaining in-degrees are
\* non-negative, no task is in the queue or the order more than once, the
\* tasks in the queue have remaining in-degree zero, and the order holds
\* declared tasks only.
C18_LoopInvariant ==
    pc \in {"kahn", "sorted"} =>
        /\ \A t \in DOMAIN in_degree : in_degree[t] >= 0
        /\ \A t \in TaskIds :
               Occurrences(queue, t) <= 1 /\ Occurrences(order, t) <= 1
        /\ \A t \in Range(queue) : t \in DOMAIN in_degree /\ in_degree[t] = 0
        /\ Range(order) \subseteq config

C18_Witness ==
    /\ pc = "kahn"
    /\ Len(order) = 1
    /\ Len(queue) = 1
    /\ \E t \in DOMAIN in_degree : in_degree[t] = 2
    /\ HasDuplicateEdge(dependencies)

\* The tasks invoked so far are the first tasks of the executed order, and
\* every one but the last has succeeded.
InvokedInOrder ==
    /\ Len(invoked) <= Len(ExecutedOrder)
    /\ \A i \in DOMAIN invoked :
           /\ invoked[i].task = ExecutedOrder[i]
           /\ i < Len(invoked) => Succeeded(invoked[i].kind)

\* C15: sink delivery failures do not change the run.  After a log line was
\* lost the run goes on, the tasks are invoked in the order computed and the
\* signal is the one the task outcomes give; a terminal signal that could
\* not be delivered was caught and logged as a diagnostic, and the process
\* exits as it would have.
C15_SinkFailuresDoNotChangeRun ==
    /\ log_lost =>
        /\ ~Terminated => ENABLED Next
        /\ (deps_state = "ok" \/ task_config \in TaskIds) => InvokedInOrder
        /\ (pc = "exited" /\ exit_code = 0) =>
               signals = <<IF AllInvokedAndSucceeded THEN "DONE" ELSE "ERROR">>
    /\ Len(delivered) < Len(signals) =>
        /\ signal_diag
        /\ pc = "exited"
        /\ fault = "none"
        /\ Len(signals) = 1
        /\ signals[1] = "DONE" <=> (exit_code = 0 /\ AllInvokedAndSucceeded)

C15_Witness ==
    /\ FullGraphMode
    /\ pc = "exited"
    /\ log_lost
    /\ Len(invoked) = 3
    /\ signals = <<"DONE">>
    /\ delivered = <<>>

\* C19: the work-queue loop terminates for every task set and declaration,
\* cyclic and dangling ones included: it removes at most one task from the
\* queue per declared task, and once entered it is left with the queue
\* empty.
C19_LoopTerminates ==
    /\ [](pc \in {"kahn", "sorted"} => Len(order) <= Cardinality(config))
    /\ (pc = "kahn") ~> (pc = "sorted" /\ queue = <<>>)

C19_Witness ==
    /\ pc = "sorted"
    /\ queue = <<>>
    /\ Cyclic(dependencies)
    /\ UndeclaredPrerequisite(dependencies, config)
    /\ Len(order) = 1

====
